---- MODULE Spec2Model ----
(***************************************************************************)
(* Model of the transfer protocol engine of src/hawser/client.go: Upload   *)
(* (negotiation POST, legacy OPTIONS + PUT, hypermedia PUT + verify), the  *)
(* request helper doRequest, the response error classifier                 *)
(* handleResponseError and the credential life cycle (setRequestHeaders,   *)
(* saveCredentials).                                                       *)
(*                                                                         *)
(* One Upload call is one behaviour: Init draws the call's arguments and   *)
(* the state of the local object store, every action is one step of the    *)
(* synchronous call chain and draws the HTTP executor's outcome for the    *)
(* request it sends.  `log` records, in program order, every call the      *)
(* engine makes to its collaborators (credential lookup, HTTP executor,    *)
(* credential approve/reject) and every classification of a response.      *)
(***************************************************************************)
EXTENDS Integers, Sequences, FiniteSets, TLC

VARIABLES
    pc,          \* position of the call chain
    oidPath,     \* Upload argument: path of the local object
    filename,    \* Upload argument: display name
    fileExists,  \* local object store: os.Open/os.Stat of oidPath succeed
    fileSize,    \* local object store: stat.Size() of the object
    lm,          \* Upload local: linkMeta returned by callPost
    status,      \* Upload local: status returned by callPost
    log,         \* calls made to the collaborators, in program order
    ret          \* value returned by Upload

vars == <<pc, oidPath, filename, fileExists, fileSize, lm, status, log, ret>>

(***************************************************************************)
(* Values                                                                  *)
(***************************************************************************)

\* Go's nil for *WrappedError / error
Nil == [kind |-> "nil"]

\* a goroutine panic (nil pointer dereference) unwinding out of Upload
Panicked == [kind |-> "panic"]

\* Upload has not returned yet
Running == [kind |-> "running"]

\* nil Creds
NoCreds == [kind |-> "nocreds"]

\* nil *http.Response
NoResponse == [kind |-> "noresponse"]

\* nil *linkMeta
NilLinkMeta == [kind |-> "nil"]

\* nil map[string]*link
NilLinks == [kind |-> "nilmap"]

gitMediaType == "application/vnd.git-media"

gitMediaMetaType == gitMediaType \o "+json; charset=utf-8"

UserAgent == "hawser"

\* Config.Endpoint(): the base endpoint string
Endpoint == "https://api/objects/"

\* Config.ObjectUrl(oid): endpoint base + OID
ObjectUrl(oid) == Endpoint \o oid

\* filepath.Base on a path given as its sequence of components
Base(path) == IF Len(path) = 0 THEN "." ELSE path[Len(path)]

\* the response statuses the HTTP executor is made to answer with
Statuses == {200, 201, 202, 204, 299, 300, 301, 302, 304, 399,
             400, 401, 403, 404, 405, 406, 410, 499, 500, 503}

\* statuses with which the executor reports a redirect it did not follow
RedirectStatuses == {301, 302, 304}

RedirectError == "RedirectError"

OtherError == "transport error"

NoError == "nil"

(***************************************************************************)
(* http.Header                                                             *)
(***************************************************************************)

EmptyHeader == [k \in {} |-> <<>>]

HeaderSet(h, k, v) == [x \in (DOMAIN h) \cup {k} |-> IF x = k THEN v ELSE h[x]]

HeaderHas(h, k) == k \in DOMAIN h

\* for h, v := range m { req.Header.Set(h, v) }
HeaderSetAll(h, m) == [x \in (DOMAIN h) \cup (DOMAIN m) |->
                          IF x \in DOMAIN m THEN m[x] ELSE h[x]]

\* header values: a verbatim string, or a Basic authorization
Raw(s) == <<"raw", s>>

\* "Basic " + base64.URLEncoding.EncodeToString(username ":" password)
BasicAuth(creds) == <<"Basic", <<"base64url", creds.username, ":", creds.password>>>>

\* request bodies: none, the JSON document {"oid", "size"}, the file's bytes
NoBody == [kind |-> "none"]

JsonOidSize(oid, size) == [kind |-> "json", oid |-> oid, size |-> size]

FileBody(path, size) == [kind |-> "file", path |-> path, size |-> size]

\* http.NewRequest(method, url, nil)
NewRequest(method, url) ==
    [Method |-> method, URL |-> url, Header |-> EmptyHeader,
     Body |-> NoBody, ContentLength |-> 0]

(***************************************************************************)
(* Hypermedia links                                                        *)
(***************************************************************************)

UploadHref == "https://store/x"

VerifyHref == "https://api/verify"

\* the extra headers a link may carry
LinkHeaders == {EmptyHeader,
                [k \in {"Authorization"} |-> Raw("RemoteAuth token")],
                [k \in {"X-Upload-Token"} |-> Raw("t1")]}

LinkOf(rel, h) == [Href |-> IF rel = "upload" THEN UploadHref ELSE VerifyHref,
                   Header |-> h]

\* the _links maps a 202 body may decode to (NilLinks: no _links member)
LinkMaps ==
    {NilLinks}
    \cup {[r \in {"upload"} |-> LinkOf(r, h)] : h \in LinkHeaders}
    \cup {[r \in {"verify"} |-> LinkOf(r, h)] : h \in LinkHeaders}
    \cup {[r \in {"upload", "verify"} |->
              IF r = "upload" THEN LinkOf(r, hu) ELSE LinkOf(r, hv)] :
          hu \in LinkHeaders, hv \in LinkHeaders}

\* func (l *linkMeta) Rel(name string) (*link, bool)
Rel(l, name) ==
    IF l.Links = NilLinks
    THEN [link |-> Nil, ok |-> FALSE]
    ELSE IF name \in DOMAIN l.Links
         THEN [link |-> l.Links[name], ok |-> TRUE]
         ELSE [link |-> Nil, ok |-> FALSE]

(***************************************************************************)
(* Responses and executor outcomes                                         *)
(***************************************************************************)

\* a response body: bytes that are not JSON, or a JSON object
GarbageBody == [json |-> FALSE, Links |-> NilLinks]

JsonBody(links) == [json |-> TRUE, Links |-> links]

\* bodies drawn for a response of status s: the _links member is only
\* ever read from a 202 response
BodiesFor(s) ==
    IF s = 202 THEN {GarbageBody} \cup {JsonBody(l) : l \in LinkMaps}
               ELSE {GarbageBody, JsonBody(NilLinks)}

Response(s, b) == [StatusCode |-> s, Body |-> b]

\* what DoHTTP(Config, req) returns: (res, err)
Outcomes ==
    {[res |-> Response(s, b), err |-> NoError] : s \in Statuses, b \in {GarbageBody, JsonBody(NilLinks)}}
    \cup {[res |-> Response(s, GarbageBody), err |-> RedirectError] : s \in RedirectStatuses}
    \cup {[res |-> Response(s, GarbageBody), err |-> OtherError] : s \in RedirectStatuses}
    \cup {[res |-> NoResponse, err |-> OtherError]}

\* outcomes of the negotiation POST: a 202 may carry any links body
PostOutcomes ==
    Outcomes \cup {[res |-> Response(202, b), err |-> NoError] : b \in BodiesFor(202)}

(***************************************************************************)
(* DoHTTP: the HTTP executor                                               *)
(***************************************************************************)

\* response headers of an answer that names no content type of its own
ResponseHeader == [k \in {"Content-Type"} |-> Raw("application/json")]

\* the headers of the answer `r` drawn for a request: its Content-Type, when
\* it names one (an empty one is no header at all)
ResponseHeaderOf(r) ==
    IF "ContentType" \in DOMAIN r
    THEN IF r.ContentType = ""
         THEN EmptyHeader
         ELSE [k \in {"Content-Type"} |-> Raw(r.ContentType)]
    ELSE ResponseHeader

\* the bytes of the body of the answer `r`
ResponseBytesOf(r) == IF "bytes" \in DOMAIN r THEN r.bytes ELSE <<>>

\* DoHTTP(Config, req) for the outcome `out` drawn by the caller's action:
\* a response remembers the request it answers
DoHTTP(req, out) ==
    [res |-> IF out.res = NoResponse
             THEN NoResponse
             ELSE [StatusCode |-> out.res.StatusCode,
                   Status     |-> <<"status line", out.res.StatusCode>>,
                   Body       |-> out.res.Body,
                   Stream     |-> ResponseBytesOf(out.res),
                   ContentLength |-> Len(ResponseBytesOf(out.res)),
                   Header     |-> ResponseHeaderOf(out.res),
                   Request    |-> req],
     err |-> out.err]

(***************************************************************************)
(* The log of calls                                                        *)
(***************************************************************************)

\* credentials(req.URL): a Credential Provider lookup
EvCredentials(url) == [ev |-> "credentials", URL |-> url]

\* setRequestHeaders returned: headers before and after, credential returned
EvAttach(url, before, after, creds, err) ==
    [ev |-> "setRequestHeaders", URL |-> url, before |-> before,
     after |-> after, creds |-> creds, err |-> err]

\* DoHTTP was called with req and returned (res, err)
EvDoHTTP(req, r) ==
    [ev |-> "DoHTTP", Method |-> req.Method, URL |-> req.URL,
     Header |-> req.Header, Body |-> req.Body,
     ContentLength |-> req.ContentLength,
     responded |-> r.res # NoResponse,
     StatusCode |-> IF r.res = NoResponse THEN 0 ELSE r.res.StatusCode,
     ResContentLength |-> IF r.res = NoResponse THEN 0 ELSE r.res.ContentLength,
     err |-> r.err]

\* saveCredentials(creds, res) was called
EvSaveCredentials(creds, s) == [ev |-> "saveCredentials", creds |-> creds, StatusCode |-> s]

\* execCreds(creds, cmd)
EvExecCreds(creds, cmd) == [ev |-> "execCreds", creds |-> creds, cmd |-> cmd]

\* handleResponseError(res) returned wErr
EvClassify(res, wErr) ==
    [ev |-> "handleResponseError", StatusCode |-> res.StatusCode,
     json |-> res.Body.json, wErr |-> wErr]

(***************************************************************************)
(* WrappedError                                                            *)
(***************************************************************************)

\* fmt.Sprintf(format, args...)
Sprintf(format, args) == [format |-> format, args |-> args]

\* errors.New(text) and the errors of the standard library
NewError(text) == [kind |-> "error", text |-> text]

\* the *ClientError decoded from an error body
ClientError == [kind |-> "ClientError"]

EmptyContext == [k \in {} |-> <<>>]

\* Errorf(err, format, args...): a WrappedError around the root cause err,
\* fatal by default, with an empty context
Errorf(err, format, args) ==
    [kind |-> "err", Err |-> err, Message |-> Sprintf(format, args),
     Panic |-> TRUE, context |-> EmptyContext]

\* Error(err)
Error(err) == Errorf(err, "", <<>>)

\* func (e *WrappedError) Set(key, value): re-setting a key overwrites
ErrSet(e, key, value) ==
    [e EXCEPT !.context = [k \in (DOMAIN e.context) \cup {key} |->
                              IF k = key THEN value ELSE e.context[k]]]

(***************************************************************************)
(* Error context builder                                                   *)
(***************************************************************************)

\* no header is hidden
hiddenHeaders_None == {}

hiddenHeaders == {"Authorization"}

RECURSIVE SetHeaders(_, _, _, _)
\* the loop of setErrorHeaderContext over the keys not yet visited
SetHeaders(err, prefix, head, keys) ==
    IF keys = {} THEN err
    ELSE LET key == CHOOSE k \in keys : TRUE
             contextKey == prefix \o ":" \o key
         IN SetHeaders(IF key \in hiddenHeaders
                       THEN ErrSet(err, contextKey, Raw("--"))
                       ELSE ErrSet(err, contextKey, head[key]),
                       prefix, head, keys \ {key})

setErrorHeaderContext(err, prefix, head) ==
    SetHeaders(err, prefix, head, DOMAIN head)

setErrorRequestContext(err, req) ==
    LET e1 == ErrSet(err, "Endpoint", Raw(Endpoint))
        e2 == ErrSet(e1, "URL", <<req.Method, " ", req.URL>>)
    IN setErrorHeaderContext(e2, "Response", req.Header)

setErrorResponseContext(err, res) ==
    LET e1 == ErrSet(err, "Status", res.Status)
        e2 == setErrorHeaderContext(e1, "Request", res.Header)
    IN setErrorRequestContext(e2, res.Request)

(***************************************************************************)
(* Credential life cycle                                                   *)
(***************************************************************************)

\* credentials(u): the Credential Provider returns a credential set for u
credentials(u) ==
    [creds |-> [username |-> "user", password |-> "secret"], err |-> Nil]

\* setRequestHeaders that looks a credential up whatever the request carries
setRequestHeaders_AlwaysLookup(req) ==
    LET h1 == HeaderSet(req.Header, "User-Agent", Raw(UserAgent))
        c  == credentials(req.URL)
        h2 == HeaderSet(h1, "Authorization", BasicAuth(c.creds))
    IN [req |-> [req EXCEPT !.Header = h2], creds |-> c.creds, err |-> Nil,
        calls |-> <<EvCredentials(req.URL),
                    EvAttach(req.URL, req.Header, h2, c.creds, Nil)>>]

\* setRequestHeaders(req): (request with headers, Creds, error, calls made)
setRequestHeaders(req) ==
    LET h1 == HeaderSet(req.Header, "User-Agent", Raw(UserAgent))
    IN IF HeaderHas(h1, "Authorization")
       THEN [req |-> [req EXCEPT !.Header = h1], creds |-> NoCreds, err |-> Nil,
             calls |-> <<EvAttach(req.URL, req.Header, h1, NoCreds, Nil)>>]
       ELSE LET c == credentials(req.URL)
                lookup == <<EvCredentials(req.URL)>>
            IN IF c.err # Nil
               THEN [req |-> [req EXCEPT !.Header = h1], creds |-> NoCreds,
                     err |-> c.err,
                     calls |-> lookup \o <<EvAttach(req.URL, req.Header, h1, NoCreds, c.err)>>]
               ELSE LET h2 == HeaderSet(h1, "Authorization", BasicAuth(c.creds))
                    IN [req |-> [req EXCEPT !.Header = h2], creds |-> c.creds,
                        err |-> Nil,
                        calls |-> lookup \o <<EvAttach(req.URL, req.Header, h2, c.creds, Nil)>>]

\* request(method, oid)
request(method, oid) == setRequestHeaders(NewRequest(method, ObjectUrl(oid)))

\* saveCredentials that rejects below 400 only
saveCredentials_RejectBelow400(creds, res) ==
    <<EvSaveCredentials(creds, res.StatusCode)>> \o
    (IF creds = NoCreds THEN <<>>
     ELSE IF res.StatusCode < 300 THEN <<EvExecCreds(creds, "approve")>>
     ELSE IF res.StatusCode < 400 THEN <<EvExecCreds(creds, "reject")>>
     ELSE <<>>)

\* saveCredentials(creds, res): the calls it makes, after the record of the
\* call itself
saveCredentials(creds, res) ==
    <<EvSaveCredentials(creds, res.StatusCode)>> \o
    (IF creds = NoCreds THEN <<>>
     ELSE IF res.StatusCode < 300 THEN <<EvExecCreds(creds, "approve")>>
     ELSE IF res.StatusCode < 405 THEN <<EvExecCreds(creds, "reject")>>
     ELSE <<>>)

(***************************************************************************)
(* Response error classifier                                               *)
(***************************************************************************)

\* handleResponseError that downgrades status 500 too
handleResponseError_NonFatal500(res) ==
    IF res.StatusCode < 400 \/ res.StatusCode = 405
    THEN Nil
    ELSE LET wErr ==
                 IF ~res.Body.json
                 THEN Errorf(NewError("json decode"), "Error decoding JSON from response", <<>>)
                 ELSE IF res.StatusCode \in {401, 403}
                      THEN Errorf(ClientError, "Authorization error: %s", <<res.Request.URL>>)
                      ELSE IF res.StatusCode = 404
                           THEN Errorf(ClientError, "Repository not found: %s", <<res.Request.URL>>)
                           ELSE Errorf(ClientError, "Invalid response: %d", <<res.StatusCode>>)
         IN IF res.StatusCode =< 500 THEN [wErr EXCEPT !.Panic = FALSE] ELSE wErr

\* handleResponseError(res) -> wErr
handleResponseError(res) ==
    IF res.StatusCode < 400 \/ res.StatusCode = 405
    THEN Nil
    ELSE LET wErr ==
                 IF ~res.Body.json
                 THEN Errorf(NewError("json decode"), "Error decoding JSON from response", <<>>)
                 ELSE IF res.StatusCode \in {401, 403}
                      THEN Errorf(ClientError, "Authorization error: %s", <<res.Request.URL>>)
                      ELSE IF res.StatusCode = 404
                           THEN Errorf(ClientError, "Repository not found: %s", <<res.Request.URL>>)
                           ELSE Errorf(ClientError, "Invalid response: %d", <<res.StatusCode>>)
         IN IF res.StatusCode < 500 THEN [wErr EXCEPT !.Panic = FALSE] ELSE wErr

(***************************************************************************)
(* doRequest                                                               *)
(***************************************************************************)

\* the tail of doRequest: enrich a non-nil wErr with context
doRequestContext(wErr, res, req) ==
    IF wErr # Nil
    THEN IF res # NoResponse
         THEN setErrorResponseContext(wErr, res)
         ELSE setErrorRequestContext(wErr, req)
    ELSE wErr

\* the record of doRequest's return: what DoHTTP had reported, and the
\* (res, wErr) handed back, or the panic
EvDoRequest(req, r, wErr, panic) ==
    [ev |-> "doRequest", Method |-> req.Method, URL |-> req.URL,
     responded |-> r.res # NoResponse, err |-> r.err,
     wErr |-> wErr, panic |-> panic]

\* doRequest returns (res, wErr) after the calls it made
DoRequestReturned(req, r, wErr, calls) ==
    [res |-> r.res, wErr |-> wErr, panic |-> FALSE,
     calls |-> calls \o <<EvDoRequest(req, r, wErr, FALSE)>>]

\* doRequest panics on the nil response
DoRequestPanicked(req, r) ==
    [res |-> r.res, wErr |-> Nil, panic |-> TRUE,
     calls |-> <<EvDoHTTP(req, r), EvDoRequest(req, r, Nil, TRUE)>>]

\* doRequest(req, creds) when DoHTTP's outcome is `out`:
\* (res, wErr), whether it panicked, and the calls it made
doRequest(req, creds, out) ==
    LET r    == DoHTTP(req, out)
        res  == r.res
        err  == IF r.err = RedirectError THEN NoError ELSE r.err
        sent == <<EvDoHTTP(req, r)>>
    IN IF err = NoError
       THEN IF res = NoResponse
            THEN DoRequestPanicked(req, r)
            ELSE LET saved == IF creds # NoCreds
                              THEN saveCredentials(creds, res) ELSE <<>>
                     wErr  == handleResponseError(res)
                 IN DoRequestReturned(req, r, doRequestContext(wErr, res, req),
                                      sent \o saved \o <<EvClassify(res, wErr)>>)
       ELSE IF res = NoResponse
            THEN DoRequestPanicked(req, r)
            ELSE LET wErr == IF res.StatusCode # 302
                             THEN Errorf(NewError(err),
                                         "Error sending HTTP request to %s",
                                         <<req.URL>>)
                             ELSE Nil
                 IN DoRequestReturned(req, r, doRequestContext(wErr, res, req),
                                      sent)

(***************************************************************************)
(* The requests of Upload                                                  *)
(***************************************************************************)

\* what a call* helper hands back: its results, whether it panicked, and
\* the calls it made
Returned(l, s, err, calls) ==
    [lm |-> l, status |-> s, err |-> err, panic |-> FALSE, calls |-> calls]

PanickedIn(calls) ==
    [lm |-> NilLinkMeta, status |-> 0, err |-> Nil, panic |-> TRUE, calls |-> calls]

\* callPost(filehash, filename) -> (linkMeta, status, err)
callPost(filehash, fname, exists, size, out) ==
    LET oid == Base(filehash)
        r   == request("POST", "")
    IN IF r.err # Nil
       THEN Returned(NilLinkMeta, 0,
                     Errorf(r.err, "Error attempting to POST %s", <<fname>>), r.calls)
       ELSE IF ~exists
       THEN Returned(NilLinkMeta, 0,
                     Errorf(NewError("open"), "Error attempting to POST %s", <<fname>>),
                     r.calls)
       ELSE LET req == [r.req EXCEPT
                           !.Body = JsonOidSize(oid, size),
                           !.Header = HeaderSet(@, "Accept", Raw(gitMediaMetaType))]
                d   == doRequest(req, r.creds, out)
                calls == r.calls \o d.calls
            IN IF d.panic THEN PanickedIn(calls)
               ELSE IF d.wErr # Nil THEN Returned(NilLinkMeta, 0, d.wErr, calls)
               ELSE IF d.res.StatusCode = 202
               THEN IF ~d.res.Body.json
                    THEN Returned(NilLinkMeta, d.res.StatusCode,
                                  Errorf(NewError("json decode"),
                                         "Error decoding JSON from %s %s.",
                                         <<req.Method, req.URL>>), calls)
                    ELSE Returned([Links |-> d.res.Body.Links], d.res.StatusCode,
                                  Nil, calls)
               ELSE Returned(NilLinkMeta, d.res.StatusCode, Nil, calls)

\* callOptions(filehash) -> (status, err)
callOptions(filehash, exists, out) ==
    LET oid == Base(filehash)
    IN IF ~exists
       THEN Returned(NilLinkMeta, 0,
                     Errorf(NewError("stat"), "Internal object does not exist: %s",
                            <<filehash>>), <<>>)
       ELSE LET r == request("OPTIONS", oid)
            IN IF r.err # Nil
               THEN Returned(NilLinkMeta, 0,
                             Errorf(r.err, "Unable to build OPTIONS request for %s",
                                    <<oid>>), r.calls)
               ELSE LET d == doRequest(r.req, r.creds, out)
                        calls == r.calls \o d.calls
                    IN IF d.panic THEN PanickedIn(calls)
                       ELSE IF d.wErr # Nil
                       THEN Returned(NilLinkMeta, 0, d.wErr, calls)
                       ELSE Returned(NilLinkMeta, d.res.StatusCode, Nil, calls)

\* callPut(filehash, filename, cb) -> err
callPut(filehash, fname, exists, size, out) ==
    LET oid == Base(filehash)
    IN IF ~exists
       THEN Returned(NilLinkMeta, 0,
                     Errorf(NewError("open"), "Internal object does not exist: %s",
                            <<filehash>>), <<>>)
       ELSE LET r == request("PUT", oid)
            IN IF r.err # Nil
               THEN Returned(NilLinkMeta, 0,
                             Errorf(r.err, "Unable to build PUT request for %s",
                                    <<oid>>), r.calls)
               ELSE LET req == [r.req EXCEPT
                                   !.Header = HeaderSet(
                                       HeaderSet(@, "Content-Type", Raw(gitMediaType)),
                                       "Accept", Raw(gitMediaMetaType)),
                                   !.Body = FileBody(filehash, size),
                                   !.ContentLength = size]
                        d == doRequest(req, r.creds, out)
                        calls == r.calls \o d.calls
                    IN IF d.panic \/ d.res = NoResponse THEN PanickedIn(calls)
                       ELSE Returned(NilLinkMeta, d.res.StatusCode, d.wErr, calls)

\* callExternalPut(filehash, filename, lm, cb), up to the settlement of the
\* PUT's credential
callExternalPutTransfer(filehash, fname, l, exists, size, out) ==
    IF l = NilLinkMeta
    THEN Returned(l, 0, Errorf(NewError("No hypermedia links provided"),
                               "Error attempting to PUT %s", <<fname>>), <<>>)
    ELSE LET up == Rel(l, "upload")
         IN IF ~up.ok
            THEN Returned(l, 0, Errorf(NewError("No upload link provided"),
                                       "Error attempting to PUT %s", <<fname>>), <<>>)
            ELSE IF ~exists
            THEN Returned(l, 0, Errorf(NewError("open"),
                                       "Error attempting to PUT %s", <<fname>>), <<>>)
            ELSE LET req0 == NewRequest("PUT", up.link.Href)
                     req1 == [req0 EXCEPT !.Header = HeaderSetAll(@, up.link.Header)]
                     a    == setRequestHeaders(req1)
                 IN IF a.err # Nil
                    THEN Returned(l, 0, Errorf(a.err, "Error attempting to PUT %s",
                                               <<fname>>), a.calls)
                    ELSE LET req == [a.req EXCEPT !.Body = FileBody(filehash, size),
                                                  !.ContentLength = size]
                             r   == DoHTTP(req, out)
                             calls == a.calls \o <<EvDoHTTP(req, r)>>
                         IN IF r.err # NoError
                            THEN Returned(l, 0, Errorf(NewError(r.err),
                                                       "Error attempting to PUT %s",
                                                       <<fname>>), calls)
                            ELSE IF r.res = NoResponse THEN PanickedIn(calls)
                            ELSE Returned(l, r.res.StatusCode, Nil,
                                          calls \o saveCredentials(a.creds, r.res))

\* the verify callback posting a size of 0 whatever the file's size
callExternalPutVerify_ZeroSize(filehash, fname, l, size, out) ==
    LET cb == Rel(l, "verify")
    IN IF cb.ok
       THEN LET oid  == Base(filehash)
                req0 == NewRequest("POST", cb.link.Href)
                req1 == [req0 EXCEPT !.Header = HeaderSetAll(@, cb.link.Header)]
                a    == setRequestHeaders(req1)
                verifyReq == [a.req EXCEPT !.Body = JsonOidSize(oid, 0)]
                r == DoHTTP(verifyReq, out)
                calls == a.calls \o <<EvDoHTTP(verifyReq, r)>>
            IN IF r.err # NoError
               THEN Returned(l, 0, Errorf(NewError(r.err),
                                          "Error attempting to verify %s",
                                          <<fname>>), calls)
               ELSE IF r.res = NoResponse THEN PanickedIn(calls)
               ELSE Returned(l, r.res.StatusCode, Nil,
                             calls \o saveCredentials(a.creds, r.res))
       ELSE Returned(l, 0, Nil, <<>>)

\* callExternalPut, from the verify callback to its return
callExternalPutVerify(filehash, fname, l, size, out) ==
    LET cb == Rel(l, "verify")
    IN IF cb.ok
       THEN LET oid  == Base(filehash)
                req0 == NewRequest("POST", cb.link.Href)
                req1 == [req0 EXCEPT !.Header = HeaderSetAll(@, cb.link.Header)]
                a    == setRequestHeaders(req1)
            IN IF a.err # Nil
               THEN Returned(l, 0, Errorf(a.err, "Error attempting to verify %s",
                                          <<fname>>), a.calls)
               ELSE LET verifyReq == [a.req EXCEPT !.Body = JsonOidSize(oid, size)]
                        r == DoHTTP(verifyReq, out)
                        calls == a.calls \o <<EvDoHTTP(verifyReq, r)>>
                    IN IF r.err # NoError
                       THEN Returned(l, 0, Errorf(NewError(r.err),
                                                  "Error attempting to verify %s",
                                                  <<fname>>), calls)
                       ELSE IF r.res = NoResponse THEN PanickedIn(calls)
                       ELSE Returned(l, r.res.StatusCode, Nil,
                                     calls \o saveCredentials(a.creds, r.res))
       ELSE Returned(l, 0, Nil, <<>>)

(***************************************************************************)
(* Media header validator                                                  *)
(***************************************************************************)

\* longest response body
MaxBodyLen == 5

\* the bytes a response body is made of
BodyAlphabet == {"-", "a", "\n"}

Bodies == UNION {[1..n -> BodyAlphabet] : n \in 0..MaxBodyLen}

\* Content-Type values of the responses
ContentTypes ==
    {"", "text/plain", "text/plain; header=a", "text/plain; =x",
     "application/vnd.git-media",
     "application/vnd.git-media; header=\"\"",
     "application/vnd.git-media; header=a",
     "Application/Vnd.Git-Media; header=aa",
     "application/vnd.git-media+json; charset=utf-8"}

NoParams == [k \in {} |-> <<>>]

HeaderParam(chars) == [k \in {"header"} |-> chars]

\* mime.ParseMediaType(v): the media type in lower case, the parameters
\* (values as their sequence of bytes), or an error
ParseMediaType(v) ==
    IF v = "text/plain"
    THEN [mediaType |-> "text/plain", params |-> NoParams, err |-> Nil]
    ELSE IF v = "text/plain; header=a"
    THEN [mediaType |-> "text/plain", params |-> HeaderParam(<<"a">>), err |-> Nil]
    ELSE IF v = "application/vnd.git-media"
    THEN [mediaType |-> "application/vnd.git-media", params |-> NoParams, err |-> Nil]
    ELSE IF v = "application/vnd.git-media; header=\"\""
    THEN [mediaType |-> "application/vnd.git-media", params |-> HeaderParam(<<>>),
          err |-> Nil]
    ELSE IF v = "application/vnd.git-media; header=a"
    THEN [mediaType |-> "application/vnd.git-media", params |-> HeaderParam(<<"a">>),
          err |-> Nil]
    ELSE IF v = "Application/Vnd.Git-Media; header=aa"
    THEN [mediaType |-> "application/vnd.git-media",
          params |-> HeaderParam(<<"a", "a">>), err |-> Nil]
    ELSE IF v = "application/vnd.git-media+json; charset=utf-8"
    THEN [mediaType |-> "application/vnd.git-media+json",
          params |-> [k \in {"charset"} |-> <<"utf-8">>], err |-> Nil]
    ELSE IF v = "application/json"
    THEN [mediaType |-> "application/json", params |-> NoParams, err |-> Nil]
    ELSE [mediaType |-> "", params |-> NoParams,
          err |-> NewError("mime: invalid media parameter")]

\* io.ReadAtLeast(reader, buf, min) with len(buf) = min: the bytes read, the
\* stream left, and whether fewer than min bytes were there
ReadAtLeast(stream, min) ==
    IF Len(stream) < min
    THEN [read |-> stream, rest |-> <<>>, short |-> TRUE]
    ELSE [read |-> SubSeq(stream, 1, min),
          rest |-> SubSeq(stream, min + 1, Len(stream)), short |-> FALSE]

\* a validator that always leaves the reader drained
Validated_ReaderDrained(ok, headerSize, wErr, rest) ==
    [ok |-> ok, headerSize |-> headerSize, wErr |-> wErr, rest |-> <<>>]

\* what validateMediaHeader hands back, and the reader as it leaves it
Validated(ok, headerSize, wErr, rest) ==
    [ok |-> ok, headerSize |-> headerSize, wErr |-> wErr, rest |-> rest]

\* validateMediaHeader that reads the marker's bytes without comparing them
validateMediaHeader_NoCompare(contentType, reader) ==
    LET parsed == ParseMediaType(contentType)
    IN IF parsed.err # Nil
       THEN Validated(FALSE, 0, Errorf(parsed.err, "Invalid Media Type: %s",
                                       <<contentType>>), reader)
       ELSE IF parsed.mediaType = gitMediaType
       THEN IF "header" \notin DOMAIN parsed.params
            THEN Validated(FALSE, 0,
                           Error(NewError("Missing Git Media header")), reader)
            ELSE LET fullGivenHeader ==
                         <<"-", "-">> \o parsed.params["header"] \o <<"\n">>
                     headerSize == Len(fullGivenHeader)
                     r == ReadAtLeast(reader, headerSize)
                 IN IF r.short
                    THEN Validated(FALSE, headerSize,
                                   Errorf(NewError("unexpected EOF"),
                                          "Error reading response body.", <<>>),
                                   r.rest)
                    ELSE Validated(TRUE, headerSize, Nil, r.rest)
       ELSE Validated(TRUE, 0, Nil, reader)

\* validateMediaHeader(contentType, reader) -> (ok, headerSize, wErr)
validateMediaHeader(contentType, reader) ==
    LET parsed == ParseMediaType(contentType)
    IN IF parsed.err # Nil
       THEN Validated(FALSE, 0, Errorf(parsed.err, "Invalid Media Type: %s",
                                       <<contentType>>), reader)
       ELSE IF parsed.mediaType = gitMediaType
       THEN IF "header" \notin DOMAIN parsed.params
            THEN Validated(FALSE, 0,
                           Error(NewError("Missing Git Media header")), reader)
            ELSE LET fullGivenHeader ==
                         <<"-", "-">> \o parsed.params["header"] \o <<"\n">>
                     headerSize == Len(fullGivenHeader)
                     r == ReadAtLeast(reader, headerSize)
                 IN IF r.short
                    THEN Validated(FALSE, headerSize,
                                   Errorf(NewError("unexpected EOF"),
                                          "Error reading response body.", <<>>),
                                   r.rest)
                    ELSE IF r.read # fullGivenHeader
                    THEN Validated(FALSE, headerSize,
                                   Error(NewError("Invalid header")), r.rest)
                    ELSE Validated(TRUE, headerSize, Nil, r.rest)
       ELSE Validated(TRUE, 0, Nil, reader)

(***************************************************************************)
(* Download                                                                *)
(***************************************************************************)

\* statuses with which a body of any content type and bytes is drawn
StreamStatuses == {200, 405}

\* outcomes of Download's GET
DownloadOutcomes ==
    Outcomes
    \cup {[res |-> [StatusCode |-> s, Body |-> GarbageBody,
                    ContentType |-> ct, bytes |-> b],
           err |-> NoError] :
          s \in StreamStatuses, ct \in ContentTypes, b \in Bodies}

\* http.Header.Get(key): "" when the header is not there
HeaderGet(h, key) == IF key \in DOMAIN h THEN h[key][2] ELSE ""

\* Download returns (res.Body, n, nil)
Stream(body, n) == [kind |-> "stream", Body |-> body, n |-> n]

\* what Download hands back: its results (an error, or the stream and its
\* length), whether it panicked, and the calls it made
Downloaded(r, calls) == [ret |-> r, calls |-> calls]

\* the record of validateMediaHeader's call and result
EvValidate(contentType, reader, v) ==
    [ev |-> "validateMediaHeader", contentType |-> contentType,
     reader |-> reader, ok |-> v.ok, headerSize |-> v.headerSize,
     wErr |-> v.wErr, rest |-> v.rest]

\* the response handling of Download returning the declared content length
\* as the payload length
DownloadResponse_DeclaredLength(res, calls) ==
    LET contentType == HeaderGet(res.Header, "Content-Type")
    IN IF contentType = ""
       THEN Downloaded(setErrorResponseContext(
                           Error(NewError("Empty Content-Type")), res), calls)
       ELSE LET v == validateMediaHeader(contentType, res.Stream)
                vcalls == calls \o <<EvValidate(contentType, res.Stream, v)>>
            IN IF ~v.ok
               THEN Downloaded(setErrorResponseContext(v.wErr, res), vcalls)
               ELSE Downloaded(Stream(v.rest, res.ContentLength), vcalls)

\* Download once doRequest has returned res without error: the content
\* type, the media header, the stream and its length
DownloadResponse(res, calls) ==
    LET contentType == HeaderGet(res.Header, "Content-Type")
    IN IF contentType = ""
       THEN Downloaded(setErrorResponseContext(
                           Error(NewError("Empty Content-Type")), res), calls)
       ELSE LET v == validateMediaHeader(contentType, res.Stream)
                vcalls == calls \o <<EvValidate(contentType, res.Stream, v)>>
            IN IF ~v.ok
               THEN Downloaded(setErrorResponseContext(v.wErr, res), vcalls)
               ELSE Downloaded(Stream(v.rest, res.ContentLength - v.headerSize),
                               vcalls)

\* Download(oidPath) -> (io.ReadCloser, int64, *WrappedError)
\* when DoHTTP's outcome is `out`
Download(path, out) ==
    LET oid == Base(path)
        r   == request("GET", oid)
        req == [r.req EXCEPT !.Header = HeaderSet(@, "Accept", Raw(gitMediaType))]
        d   == doRequest(req, r.creds, out)
        calls == r.calls \o d.calls
    IN IF r.err # Nil THEN Downloaded(Error(r.err), r.calls)
       ELSE IF d.panic THEN Downloaded(Panicked, calls)
       ELSE IF d.wErr # Nil THEN Downloaded(d.wErr, calls)
       ELSE DownloadResponse(d.res, calls)

(***************************************************************************)
(* Upload                                                                  *)
(***************************************************************************)

OidPaths == {<<".git", "media", "ab", "oid-abcd">>}

Filenames == {"big.bin"}

\* largest size of the local object
MaxFileSize == 1

\* an Upload of any object, or a Download (which reads nothing of the local
\* object)
Init ==
    /\ pc \in {"Upload", "Download"}
    /\ oidPath \in OidPaths
    /\ filename \in Filenames
    /\ fileExists \in BOOLEAN
    /\ fileSize \in 0..MaxFileSize
    /\ (pc = "Download" => fileExists /\ fileSize = 0)
    /\ lm = NilLinkMeta
    /\ status = 0
    /\ log = <<>>
    /\ ret = Running

\* Upload returns r
Return(r) == [pc |-> "done", ret |-> r]

\* Upload goes on at position p
Goto(p) == [pc |-> p, ret |-> Running]

\* the branch of Upload with status 200 sent down the legacy path
UploadBranch_ProbeOn200(s, err) ==
    IF err # Nil /\ s # 302
    THEN Return(Errorf(err, "Error starting file upload.", <<>>))
    ELSE IF s \in {200, 405, 302} THEN Goto("callOptions")
    ELSE IF s = 202 THEN Goto("callExternalPut")
    ELSE Return(Errorf(err, "Unexpected HTTP response: %d", <<s>>))

\* Upload, lines 80-88 and 101-109: what follows callPost's (status, err)
UploadBranch(s, err) ==
    IF err # Nil /\ s # 302
    THEN Return(Errorf(err, "Error starting file upload.", <<>>))
    ELSE IF s = 200 THEN Return(Nil)
    ELSE IF s \in {405, 302} THEN Goto("callOptions")
    ELSE IF s = 202 THEN Goto("callExternalPut")
    ELSE Return(Errorf(err, "Unexpected HTTP response: %d", <<s>>))

\* the legacy branch that PUTs whatever the probe's status
UploadLegacyBranch_AlwaysPut(s, wErr) ==
    IF wErr # Nil THEN Return(wErr) ELSE Goto("callPut")

\* Upload, lines 90-100: what follows callOptions' (status, wErr)
UploadLegacyBranch(s, wErr) ==
    IF wErr # Nil THEN Return(wErr)
    ELSE IF s # 200 THEN Goto("callPut")
    ELSE Return(Nil)

\* Upload, lines 96-99 and 103-106, 111: the transfer's err ends Upload
UploadResult(err, fname, path) ==
    IF err # Nil
    THEN Return(Errorf(err, "Error uploading file %s (%s)", <<fname, Base(path)>>))
    ELSE Return(Nil)

\* Upload, line 79: the negotiation, then the branch on its status
UploadCallPost ==
    /\ pc = "Upload"
    /\ \E out \in PostOutcomes :
         LET p == callPost(oidPath, filename, fileExists, fileSize, out)
             b == IF p.panic THEN Return(Panicked) ELSE UploadBranch(p.status, p.err)
         IN /\ log' = log \o p.calls
            /\ lm' = p.lm
            /\ status' = p.status
            /\ pc' = b.pc
            /\ ret' = b.ret
    /\ UNCHANGED <<oidPath, filename, fileExists, fileSize>>

\* Upload, lines 88-95: the OPTIONS probe of the legacy path
UploadCallOptions ==
    /\ pc = "callOptions"
    /\ \E out \in Outcomes :
         LET o == callOptions(oidPath, fileExists, out)
         IN /\ log' = log \o o.calls
            /\ LET b == IF o.panic THEN Return(Panicked)
                        ELSE UploadLegacyBranch(o.status, o.err)
               IN pc' = b.pc /\ ret' = b.ret
    /\ UNCHANGED <<oidPath, filename, fileExists, fileSize, lm, status>>

\* Upload, lines 95-100: the PUT of the legacy path
UploadCallPut ==
    /\ pc = "callPut"
    /\ \E out \in Outcomes :
         LET p == callPut(oidPath, filename, fileExists, fileSize, out)
         IN /\ log' = log \o p.calls
            /\ LET b == IF p.panic THEN Return(Panicked)
                        ELSE UploadResult(p.err, filename, oidPath)
               IN pc' = b.pc /\ ret' = b.ret
    /\ UNCHANGED <<oidPath, filename, fileExists, fileSize, lm, status>>

\* Upload, lines 101-103: callExternalPut up to the PUT's settlement
UploadCallExternalPut ==
    /\ pc = "callExternalPut"
    /\ \E out \in Outcomes :
         LET p == callExternalPutTransfer(oidPath, filename, lm, fileExists,
                                          fileSize, out)
         IN /\ log' = log \o p.calls
            /\ LET b == IF p.panic THEN Return(Panicked)
                        ELSE IF p.err # Nil
                        THEN UploadResult(p.err, filename, oidPath)
                        ELSE Goto("verify")
               IN pc' = b.pc /\ ret' = b.ret
    /\ UNCHANGED <<oidPath, filename, fileExists, fileSize, lm, status>>

\* Upload, lines 103-106: the verify callback of callExternalPut and the
\* return of Upload
UploadVerify ==
    /\ pc = "verify"
    /\ \E out \in Outcomes :
         LET v == callExternalPutVerify(oidPath, filename, lm, fileSize, out)
         IN /\ log' = log \o v.calls
            /\ LET b == IF v.panic THEN Return(Panicked)
                        ELSE UploadResult(v.err, filename, oidPath)
               IN pc' = b.pc /\ ret' = b.ret
    /\ UNCHANGED <<oidPath, filename, fileExists, fileSize, lm, status>>

\* Download, lines 48-76
DownloadCall ==
    /\ pc = "Download"
    /\ \E out \in DownloadOutcomes :
         LET d == Download(oidPath, out)
         IN /\ log' = log \o d.calls
            /\ pc' = "done"
            /\ ret' = d.ret
    /\ UNCHANGED <<oidPath, filename, fileExists, fileSize, lm, status>>

Next ==
    \/ UploadCallPost
    \/ UploadCallOptions
    \/ UploadCallPut
    \/ UploadCallExternalPut
    \/ UploadVerify
    \/ DownloadCall

Spec == Init /\ [][Next]_vars

(***************************************************************************)
(* Enriching one error's context, step after step                          *)
(***************************************************************************)

\* most enrichment steps applied to one error
MaxEnrichSteps == 3

\* requests whose context is recorded: the GET of Download with its Basic
\* authorization, and the external PUT with each set of link headers
CtxRequests ==
    {request("GET", "oid-abcd").req}
    \cup {[NewRequest("PUT", UploadHref) EXCEPT !.Header = h] : h \in LinkHeaders}

\* responses whose context is recorded: an answer to each of the requests,
\* with its content type, and possibly an Authorization header of its own
CtxResponses ==
    LET answers == {DoHTTP(req, [res |-> Response(404, GarbageBody),
                                 err |-> NoError]).res : req \in CtxRequests}
    IN answers
       \cup {[res EXCEPT !.Header = HeaderSet(@, "Authorization",
                                               Raw("server token"))] :
             res \in answers}

\* an error without context, about to be enriched
CtxInit ==
    /\ pc = "Enrich"
    /\ oidPath \in OidPaths
    /\ filename \in Filenames
    /\ fileExists = TRUE
    /\ fileSize = 0
    /\ lm = NilLinkMeta
    /\ status = 0
    /\ log = <<>>
    /\ ret = Error(NewError("Empty Content-Type"))

\* setErrorRequestContext(err, req) on the error
CtxSetRequest ==
    /\ pc = "Enrich"
    /\ Len(log) < MaxEnrichSteps
    /\ \E req \in CtxRequests :
          /\ ret' = setErrorRequestContext(ret, req)
          /\ log' = Append(log, [ev |-> "setErrorRequestContext", req |-> req])
    /\ UNCHANGED <<pc, oidPath, filename, fileExists, fileSize, lm, status>>

\* setErrorResponseContext(err, res) on the error
CtxSetResponse ==
    /\ pc = "Enrich"
    /\ Len(log) < MaxEnrichSteps
    /\ \E res \in CtxResponses :
          /\ ret' = setErrorResponseContext(ret, res)
          /\ log' = Append(log, [ev |-> "setErrorResponseContext", res |-> res])
    /\ UNCHANGED <<pc, oidPath, filename, fileExists, fileSize, lm, status>>

CtxNext ==
    \/ CtxSetRequest
    \/ CtxSetResponse

CtxSpec == CtxInit /\ [][CtxNext]_vars

(***************************************************************************)
(* Reading the log                                                         *)
(***************************************************************************)

Done == pc = "done"

IsErr(e) == e.kind = "err"

\* positions of the requests handed to the HTTP executor
HTTPCalls == {i \in 1..Len(log) : log[i].ev = "DoHTTP"}

SentMethod(method) == {i \in HTTPCalls : log[i].Method = method}

Sent(method, url) == {i \in SentMethod(method) : log[i].URL = url}

\* the executor answered request i with status s and no transport failure
\* (the redirect signal is not a failure)
AnsweredWith(i, s) ==
    /\ log[i].responded
    /\ log[i].StatusCode = s
    /\ log[i].err \in {NoError, RedirectError}

\* the executor handed back a response of status s for request i
RespondedWith(i, s) == log[i].responded /\ log[i].StatusCode = s

Is2xx(s) == 200 =< s /\ s < 300

NegotiationCalls == Sent("POST", ObjectUrl(""))

OptionsCalls == SentMethod("OPTIONS")

PutCalls == SentMethod("PUT")

LegacyPutCalls == Sent("PUT", ObjectUrl(Base(oidPath)))

VerifyCalls == SentMethod("POST") \ NegotiationCalls

\* the negotiation POST returned a response with one of the statuses S
NegotiationReturned(S) ==
    \E i \in NegotiationCalls : \E s \in S : RespondedWith(i, s)

\* the probe's response lets the legacy PUT go ahead: it is neither 200 nor
\* classified as an error, and no transport failure came with it (a 302
\* excepted)
ProbeAsksForPut(i) ==
    /\ log[i].responded
    /\ log[i].StatusCode # 200
    /\ \/ /\ log[i].err \in {NoError, RedirectError}
          /\ (log[i].StatusCode < 400 \/ log[i].StatusCode = 405)
       \/ log[i].StatusCode = 302

(***************************************************************************)
(* C1                                                                      *)
(***************************************************************************)

LinksHave(rel) ==
    /\ NegotiationReturned({202})
    /\ lm # NilLinkMeta
    /\ Rel(lm, rel).ok

\* the executor returned a response and no error for request i
Delivered(i) == log[i].responded /\ log[i].err = NoError

HypermediaPutCalls == IF LinksHave("upload")
                      THEN Sent("PUT", Rel(lm, "upload").link.Href)
                      ELSE {}

\* C3 as stated: in the hypermedia path, a PUT to the upload href that is
\* answered with a status outside 2xx aborts the Upload: it returns a
\* non-nil error and no verify POST is sent
C3_NonSuccessPutAborts ==
    Done =>
        \A i \in HypermediaPutCalls :
            (log[i].responded /\ ~Is2xx(log[i].StatusCode)) =>
                (ret # Nil /\ VerifyCalls = {})

(***************************************************************************)
(* C4                                                                      *)
(***************************************************************************)

\* C4 as stated: in the hypermedia path with a verify relation, a verify
\* POST that fails (transport error, or a response outside 2xx) makes
\* Upload return a non-nil error
C4_FailedVerifyFailsUpload ==
    (Done /\ LinksHave("upload") /\ LinksHave("verify")) =>
        \A j \in VerifyCalls :
            (log[j].err # NoError \/ ~log[j].responded \/ ~Is2xx(log[j].StatusCode))
                => ret # Nil

(***************************************************************************)
(* C5                                                                      *)
(***************************************************************************)

\* C5 as stated: in the legacy path, a direct PUT to the object endpoint
\* that is answered with a status outside 2xx (3xx and 405 included) makes
\* Upload return a non-nil error
C5_NonSuccessLegacyPutFails ==
    (Done /\ NegotiationReturned({405, 302})) =>
        \A i \in LegacyPutCalls :
            (log[i].responded /\ ~Is2xx(log[i].StatusCode)) => ret # Nil

(***************************************************************************)
(* C6                                                                      *)
(***************************************************************************)

\* the formats whose only argument is a status code
StatusFormats == {"Unexpected HTTP response: %d", "Invalid response: %d"}

\* the message m shows the status code s
MessageCarries(m, s) == m.format \in StatusFormats /\ m.args = <<s>>

\* the error e shows the status code s in its message or in the message of
\* the error it wraps
ErrorCarries(e, s) ==
    \/ MessageCarries(e.Message, s)
    \/ (IsErr(e.Err) /\ MessageCarries(e.Err.Message, s))

ExpectedNegotiationStatuses == {200, 202, 302, 405}

\* C6 as stated: when the negotiation POST completes with a status outside
\* {200, 202, 302, 405}, Upload returns a non-nil error whose message
\* carries that status code, and no OPTIONS, PUT or verify request is sent
C6_UnexpectedStatusInMessage ==
    Done =>
        \A i \in NegotiationCalls :
            \A s \in Statuses \ ExpectedNegotiationStatuses :
                AnsweredWith(i, s) =>
                    /\ IsErr(ret)
                    /\ ErrorCarries(ret, s)
                    /\ HTTPCalls = NegotiationCalls

(***************************************************************************)
(* C7                                                                      *)
(***************************************************************************)

\* C7: when the negotiation POST returns 200, Upload returns success and
\* the negotiation is the only HTTP request of the Upload
C7_ExistingObjectNoTransfer ==
    \A i \in NegotiationCalls :
        RespondedWith(i, 200) =>
            /\ Done
            /\ ret = Nil
            /\ HTTPCalls = {i}

\* a negotiation answered 200 ended the Upload
C7_Witness ==
    /\ Done
    /\ \E i \in NegotiationCalls : AnsweredWith(i, 200)
    /\ ret = Nil

(***************************************************************************)
(* C8                                                                      *)
(***************************************************************************)

Classifications == {i \in 1..Len(log) : log[i].ev = "handleResponseError"}

\* C8: the classifier returns no error for a status below 400 and for 405,
\* and a non-nil error for every other status, whether or not the body
\* decodes as JSON; that error is non-fatal below 500 and fatal from 500 on
C8_ClassifierByStatus ==
    \A i \in Classifications :
        LET s == log[i].StatusCode
            e == log[i].wErr
        IN IF s < 400 \/ s = 405
           THEN e = Nil
           ELSE /\ IsErr(e)
                /\ (s < 500 => e.Panic = FALSE)
                /\ (s >= 500 => e.Panic = TRUE)

\* a response of status 499 whose body is not JSON was classified as a
\* non-fatal error
C8_Witness ==
    \E i \in Classifications :
        /\ log[i].StatusCode = 499
        /\ ~log[i].json
        /\ IsErr(log[i].wErr)
        /\ log[i].wErr.Panic = FALSE

(***************************************************************************)
(* C9                                                                      *)
(***************************************************************************)

Settlements == {i \in 1..Len(log) : log[i].ev = "saveCredentials"}

\* the execCreds calls made by the saveCredentials call at position i
ExecsOf(i) ==
    {j \in (i + 1)..Len(log) : \A k \in (i + 1)..j : log[k].ev = "execCreds"}

ExecCount(i, cmd) == Cardinality({j \in ExecsOf(i) : log[j].cmd = cmd})

AllExecs == {j \in 1..Len(log) : log[j].ev = "execCreds"}

\* C9: settlement of a response of status s with a credential approves
\* exactly once and never rejects when s < 300, rejects exactly once and
\* never approves when 300 <= s < 405, does neither when s >= 405; without
\* a credential it does neither; nothing else approves or rejects
C9_SettleByStatus ==
    /\ \A i \in Settlements :
          LET s == log[i].StatusCode
              approves == ExecCount(i, "approve")
              rejects  == ExecCount(i, "reject")
          IN /\ (log[i].creds # NoCreds /\ s < 300) =>
                    (approves = 1 /\ rejects = 0)
             /\ (log[i].creds # NoCreds /\ 300 =< s /\ s < 405) =>
                    (approves = 0 /\ rejects = 1)
             /\ (log[i].creds # NoCreds /\ s >= 405) =>
                    (approves = 0 /\ rejects = 0)
             /\ (log[i].creds = NoCreds) => (approves = 0 /\ rejects = 0)
             /\ \A j \in ExecsOf(i) : log[j].creds = log[i].creds
    /\ AllExecs = UNION {ExecsOf(i) : i \in Settlements}

\* in one Upload a 405 was settled with a credential (negotiation), then
\* a 404 with a credential (probe), which was rejected once
C9_Witness ==
    /\ \E i \in Settlements : log[i].creds # NoCreds /\ log[i].StatusCode = 405
    /\ \E i \in Settlements :
          /\ log[i].creds # NoCreds
          /\ log[i].StatusCode = 404
          /\ ExecCount(i, "reject") = 1

(***************************************************************************)
(* C10                                                                     *)
(***************************************************************************)

Attachments == {i \in 1..Len(log) : log[i].ev = "setRequestHeaders"}

\* the Credential Provider lookups made by the attachment at position i
LookupsOf(i) ==
    {j \in 1..(i - 1) : \A k \in j..(i - 1) : log[k].ev = "credentials"}

\* the log positions that belong to the request attached at position i
RequestSpan(i) ==
    {j \in (i + 1)..Len(log) : \A k \in (i + 1)..j : log[k].ev # "setRequestHeaders"}

\* C10: attachment on a request that carries an Authorization header looks
\* nothing up, leaves the header as it was and returns no credential, and
\* nothing is approved or rejected for that request; on a request without
\* one it looks up a credential exactly once, for the request's URL, sets
\* the Basic Authorization header made from it and returns it
C10_AttachRespectsAuthorization ==
    \A i \in Attachments :
        LET a == log[i]
        IN IF "Authorization" \in DOMAIN a.before
           THEN /\ LookupsOf(i) = {}
                /\ a.after["Authorization"] = a.before["Authorization"]
                /\ a.creds = NoCreds
                /\ \A j \in RequestSpan(i) : log[j].ev # "execCreds"
           ELSE /\ Cardinality(LookupsOf(i)) = 1
                /\ a.creds # NoCreds
                /\ a.creds = credentials(a.URL).creds
                /\ \A j \in LookupsOf(i) : log[j].URL = a.URL
                /\ a.after["Authorization"] = BasicAuth(a.creds)

\* a request carrying a link's Authorization header was attached, sent and
\* answered, and so was a request without one
C10_Witness ==
    /\ \E i \in Attachments :
          /\ "Authorization" \in DOMAIN log[i].before
          /\ \E j \in RequestSpan(i) : log[j].ev = "DoHTTP" /\ log[j].responded
    /\ \E i \in Attachments :
          /\ "Authorization" \notin DOMAIN log[i].before
          /\ \E j \in RequestSpan(i) : log[j].ev = "DoHTTP" /\ log[j].responded

(***************************************************************************)
(* C11                                                                     *)
(***************************************************************************)

Validations == {i \in 1..Len(log) : log[i].ev = "validateMediaHeader"}

\* the content types of the protocol's binary media type that name a
\* boundary
FramedTypes == {"application/vnd.git-media; header=\"\"",
                "application/vnd.git-media; header=a",
                "Application/Vnd.Git-Media; header=aa"}

\* the framing marker "--" + boundary + "\n" each of them announces
MarkerOf(contentType) ==
    IF contentType = "application/vnd.git-media; header=\"\""
    THEN <<"-", "-", "\n">>
    ELSE IF contentType = "application/vnd.git-media; header=a"
    THEN <<"-", "-", "a", "\n">>
    ELSE <<"-", "-", "a", "a", "\n">>

\* the body b starts with the bytes m
StartsWith(b, m) == Len(b) >= Len(m) /\ SubSeq(b, 1, Len(m)) = m

IsReadError(e) == IsErr(e) /\ e.Message.format = "Error reading response body."

IsFramingError(e) == IsErr(e) /\ e.Err = NewError("Invalid header")

\* C11: for the binary media type with a `header` parameter B, validation
\* succeeds exactly when the body has at least len("--" + B + "\n") bytes
\* and starts with that marker; then headerByteSize is the marker's length;
\* a shorter body fails with a read error, a differing prefix with a
\* framing error, and a missing `header` parameter fails
C11_FramingMarkerChecked ==
    \A i \in Validations :
        LET v == log[i]
        IN /\ v.contentType \in FramedTypes =>
                LET m == MarkerOf(v.contentType)
                IN /\ v.ok <=> StartsWith(v.reader, m)
                   /\ v.ok => (v.headerSize = Len(m) /\ v.wErr = Nil)
                   /\ Len(v.reader) < Len(m) => IsReadError(v.wErr)
                   /\ (Len(v.reader) >= Len(m) /\ ~StartsWith(v.reader, m))
                          => IsFramingError(v.wErr)
           /\ v.contentType = "application/vnd.git-media" =>
                (~v.ok /\ IsErr(v.wErr))

\* a body that is exactly the five bytes of the marker "--aa\n" was
\* accepted, with header size 5
C11_Witness ==
    \E i \in Validations :
        /\ log[i].contentType = "Application/Vnd.Git-Media; header=aa"
        /\ log[i].reader = <<"-", "-", "a", "a", "\n">>
        /\ log[i].ok
        /\ log[i].headerSize = 5

(***************************************************************************)
(* C12                                                                     *)
(***************************************************************************)

\* the parseable content types of another base media type
UnframedTypes == {"text/plain", "text/plain; header=a", "application/json",
                  "application/vnd.git-media+json; charset=utf-8"}

\* C12: for a parseable content type whose base media type is not the
\* binary media type, validation succeeds with headerByteSize 0 whatever
\* the body, and reads nothing from the body stream
C12_OtherTypesUnframed ==
    \A i \in Validations :
        log[i].contentType \in UnframedTypes =>
            /\ log[i].ok
            /\ log[i].headerSize = 0
            /\ log[i].wErr = Nil
            /\ log[i].rest = log[i].reader

\* a text/plain body that looks like a marker was accepted untouched
C12_Witness ==
    \E i \in Validations :
        /\ log[i].contentType = "text/plain; header=a"
        /\ log[i].reader = <<"-", "-", "a", "\n">>
        /\ log[i].ok
        /\ log[i].rest = log[i].reader

(***************************************************************************)
(* C13                                                                     *)
(***************************************************************************)

GetCalls == SentMethod("GET")

\* the length of the marker the content type announces (0 without framing)
MarkerLen(contentType) ==
    IF contentType \in FramedTypes THEN Len(MarkerOf(contentType)) ELSE 0

\* C13: a successful Download returns the response's declared
\* Content-Length minus the marker's length (0 without framing), and the
\* body stream with exactly the marker's bytes read off it
C13_PayloadLength ==
    (Done /\ ret.kind = "stream") =>
        /\ Cardinality(GetCalls) = 1
        /\ Cardinality(Validations) = 1
        /\ \A g \in GetCalls : \A i \in Validations :
              LET k == MarkerLen(log[i].contentType)
              IN /\ ret.n = log[g].ResContentLength - k
                 /\ ret.Body = SubSeq(log[i].reader, k + 1, Len(log[i].reader))

\* a Download of five declared bytes behind the marker "--a\n" returned a
\* payload length of 1 and the last byte as the stream
C13_Witness ==
    /\ Done
    /\ ret.kind = "stream"
    /\ ret.n = 1
    /\ ret.Body = <<"a">>
    /\ \E g \in GetCalls : log[g].ResContentLength = 5
    /\ \E i \in Validations :
          log[i].contentType = "application/vnd.git-media; header=a"

(***************************************************************************)
(* C19                                                                     *)
(***************************************************************************)

\* C19 as stated: for every response status of 400 or more (405 included)
\* Download returns a non-nil error and no body stream
C19_NoStreamOnErrorStatus ==
    Done =>
        \A g \in GetCalls :
            (log[g].responded /\ log[g].StatusCode >= 400) =>
                (IsErr(ret) /\ ret.kind # "stream")

(***************************************************************************)
(* C14                                                                     *)
(***************************************************************************)

DoRequestReturns == {i \in 1..Len(log) : log[i].ev = "doRequest"}

\* the error carries the endpoint and "<method> <url>" of the request
HasRequestContext(e, method, url) ==
    /\ IsErr(e)
    /\ "Endpoint" \in DOMAIN e.context
    /\ e.context["Endpoint"] = Raw(Endpoint)
    /\ "URL" \in DOMAIN e.context
    /\ e.context["URL"] = <<method, " ", url>>

\* C14 as stated: whenever DoHTTP reports a transport failure other than
\* the redirect signal, with or without a response, doRequest
\* returns normally with a non-nil error whose context holds the endpoint
\* and "<method> <url>" of the request
C14_TransportFailureWrapped ==
    \A i \in DoRequestReturns :
        log[i].err = OtherError =>
            /\ ~log[i].panic
            /\ HasRequestContext(log[i].wErr, log[i].Method, log[i].URL)

(***************************************************************************)
(* C15                                                                     *)
(***************************************************************************)

ContextPrefixes == {"Request", "Response"}

\* the request headers an enrichment step read
RequestHeadersOf(step) ==
    IF step.ev = "setErrorRequestContext" THEN step.req.Header
    ELSE step.res.Request.Header

\* the header maps an enrichment step read
HeadersOf(step) ==
    IF step.ev = "setErrorRequestContext" THEN {step.req.Header}
    ELSE {step.res.Header, step.res.Request.Header}

\* the context records header `key` with value v, under either prefix
RecordedAs(key, v) ==
    \E p \in ContextPrefixes :
        /\ (p \o ":" \o key) \in DOMAIN ret.context
        /\ ret.context[p \o ":" \o key] = v

\* C15: after any sequence of enrichment steps (request context, response
\* context, in any order, repeated) no context entry holds the value of an
\* Authorization header of a request or response that was recorded; that
\* header is recorded as the placeholder "--", and every other header of
\* the latest step with its own value
C15_AuthorizationRedacted ==
    pc = "Enrich" =>
        /\ \A i \in 1..Len(log) : \A h \in HeadersOf(log[i]) :
              "Authorization" \in DOMAIN h =>
                  /\ \A k \in DOMAIN ret.context :
                        ret.context[k] # h["Authorization"]
                  /\ RecordedAs("Authorization", Raw("--"))
        /\ \A p \in ContextPrefixes :
              (p \o ":Authorization") \in DOMAIN ret.context =>
                  ret.context[p \o ":Authorization"] = Raw("--")
        /\ Len(log) > 0 =>
              \A h \in HeadersOf(log[Len(log)]) :
                  \A key \in (DOMAIN h) \ {"Authorization"} :
                      RecordedAs(key, h[key])

\* three steps were applied, of both kinds, over a Basic authorization, a
\* link's authorization and a response's own Authorization header
C15_Witness ==
    /\ pc = "Enrich"
    /\ Len(log) = 3
    /\ \E i \in 1..3 : /\ log[i].ev = "setErrorRequestContext"
                       /\ "Authorization" \in DOMAIN log[i].req.Header
                       /\ log[i].req.Header["Authorization"][1] = "Basic"
    /\ \E i \in 1..3 : /\ log[i].ev = "setErrorResponseContext"
                       /\ "Authorization" \in DOMAIN log[i].res.Header
                       /\ "Authorization" \in DOMAIN log[i].res.Request.Header
    /\ log[3].ev = "setErrorRequestContext"
    /\ "X-Upload-Token" \in DOMAIN log[3].req.Header
    /\ RecordedAs("X-Upload-Token", Raw("t1"))
    /\ RecordedAs("Authorization", Raw("--"))

(***************************************************************************)
(* C16                                                                     *)
(***************************************************************************)

\* C16 as stated: every header taken from a request is recorded under the
\* request-side prefix and every header taken from a response under the
\* response-side prefix, never the other way round
C16_HeadersUnderOwnPrefix ==
    (pc = "Enrich" /\ Len(log) > 0) =>
        LET step == log[Len(log)]
        IN /\ \A key \in DOMAIN RequestHeadersOf(step) :
                 ("Request:" \o key) \in DOMAIN ret.context
           /\ step.ev = "setErrorResponseContext" =>
                 \A key \in DOMAIN step.res.Header :
                     ("Response:" \o key) \in DOMAIN ret.context

(***************************************************************************)
(* C17                                                                     *)
(***************************************************************************)

\* the transfer is a Download: its first step looks a credential up for the
\* object's own URL (an Upload's first lookup is for the negotiation URL)
IsDownload ==
    /\ Len(log) > 0
    /\ log[1].ev = "credentials"
    /\ log[1].URL = ObjectUrl(Base(oidPath))

\* request i failed: a transport failure other than the redirect signal,
\* or a response of 400 or more other than 405
FailedRequest(i) ==
    \/ log[i].err = OtherError
    \/ /\ log[i].responded
       /\ log[i].StatusCode >= 400
       /\ log[i].StatusCode # 405

\* each request of an Upload is sent at most once, at most three in all
AtMostOnceEach ==
    /\ Cardinality(NegotiationCalls) =< 1
    /\ Cardinality(OptionsCalls) =< 1
    /\ Cardinality(PutCalls) =< 1
    /\ Cardinality(VerifyCalls) =< 1
    /\ Cardinality(HTTPCalls) =< 3

\* no request follows a failed one
NothingAfterFailure ==
    \A i \in HTTPCalls : \A j \in HTTPCalls : i < j => ~FailedRequest(i)

\* C17 as stated: in any Upload each of the negotiation POST, the OPTIONS
\* probe, the content PUT and the verify POST is sent at most once, at most
\* three requests in all, and none after the first failing request; in any
\* Download exactly one GET is sent
C17_NoRetryNoRequestAfterFailure ==
    /\ AtMostOnceEach
    /\ NothingAfterFailure
    /\ ~IsDownload => GetCalls = {}
    /\ (Done /\ IsDownload) => (Cardinality(GetCalls) = 1 /\ HTTPCalls = GetCalls)

(***************************************************************************)
(* C18                                                                     *)
(***************************************************************************)

\* request i went out with a credential attached: only setRequestHeaders
\* sets a Basic authorization, and it does so from the credential it fetched
CredentialAttached(i) ==
    /\ "Authorization" \in DOMAIN log[i].Header
    /\ log[i].Header["Authorization"][1] = "Basic"

\* the events between request i and the next request, or the end of the log
AfterRequest(i) ==
    {j \in (i + 1)..Len(log) : \A k \in (i + 1)..j : log[k].ev # "DoHTTP"}

\* the settlements of request i's response
SettlementsOf(i) == AfterRequest(i) \cap Settlements

\* C18 as stated: for every request with a credential attached for which
\* the executor handed back a response (without a transport failure; the
\* redirect signal is none), the credential is settled exactly once, after
\* the response, before the response is classified and before the next
\* request of the transfer
C18_SettledOncePerResponse ==
    \A i \in HTTPCalls :
        (/\ CredentialAttached(i)
         /\ log[i].responded
         /\ log[i].err \in {NoError, RedirectError}) =>
            /\ Cardinality(SettlementsOf(i)) = 1
            /\ \A j \in SettlementsOf(i) :
                  /\ log[j].creds # NoCreds
                  /\ log[j].StatusCode = log[i].StatusCode
                  /\ \A k \in AfterRequest(i) :
                        log[k].ev = "handleResponseError" => j < k

(***************************************************************************)
(* C20                                                                     *)
(***************************************************************************)

Rejections == {j \in AllExecs : log[j].cmd = "reject"}

\* C20 as stated: in an Upload that returns success no credential attached
\* during it is rejected; a negotiation answered 302, which starts the
\* legacy path, does not have its credential rejected
C20_SuccessfulUploadNeverRejects ==
    /\ (Done /\ ~IsDownload /\ ret = Nil) => Rejections = {}
    /\ \A i \in NegotiationCalls :
          (AnsweredWith(i, 302) /\ OptionsCalls # {}) =>
              AfterRequest(i) \cap Rejections = {}

====
